---------------------------- MODULE Spec2Model ----------------------------
(***************************************************************************)
(* Model of afval.py: two provider adapters that scrape pickup dates, the  *)
(* Redis-backed orchestrator fetch_data_for with its positive and negative *)
(* cache entries, and the in-process cache call_cached.                    *)
(*                                                                         *)
(* Text is modelled segment by segment: a byte string is a sequence of     *)
(* byte values, a Python str is a record tagged "str", an address part is  *)
(* a sequence of one-character strings, a number in a document is a        *)
(* sequence of digits.                                                     *)
(***************************************************************************)
EXTENDS Integers, Sequences, FiniteSets, TLC

(***************************************************************************)
(* Bounds of the model.                                                    *)
(***************************************************************************)
NumProcs == 2
MaxRequests == 2
TickStep == 1200
MaxNow == 6
MaxMemCalls == 2
MaxLines == 2
MaxEvents == 2

Procs == 1..NumProcs

(***************************************************************************)
(* Enumerations and tables of the program.                                 *)
(***************************************************************************)
Provider == {"cleanprofs", "afvalstoffen"}

WasteType == {"non_recyclable", "organic", "paper", "plastic", "tree"}

\* WasteType is a str Enum: members compare as their string values.  The
\* five values are in alphabetical order, so the rank is the str order.
WasteTypeRank(w) ==
    CASE w = "non_recyclable" -> 1
      [] w = "organic" -> 2
      [] w = "paper" -> 3
      [] w = "plastic" -> 4
      [] w = "tree" -> 5

REDIS_POSITIVE_CACHE_EXPIRE == 3600
REDIS_NEGATIVE_CACHE_EXPIRE == 300

CLEANPROFS_WASTE_TYPES ==
    [t \in {"rst", "gft"} |-> IF t = "rst" THEN "non_recyclable" ELSE "organic"]

AFVALSTOFFEN_WASTE_TYPES ==
    [t \in {"restafval", "gft", "papier", "kerstbomen"} |->
        CASE t = "restafval" -> "non_recyclable"
          [] t = "gft" -> "organic"
          [] t = "papier" -> "paper"
          [] t = "kerstbomen" -> "tree"]

MONTHS == <<"januari", "februari", "maart", "april", "mei", "juni", "juli",
            "augustus", "september", "oktober", "november", "december">>

MONTHS_ABBREVIATED == <<"jan", "feb", "mar", "apr", "may", "jun", "jul",
                        "aug", "sep", "oct", "nov", "dec">>

(***************************************************************************)
(* Python values the model needs.                                          *)
(***************************************************************************)
None == [t |-> "None"]
NotFound == [t |-> "NotFound"]
Str(s) == [t |-> "str", s |-> s]
Bytes(b) == [t |-> "bytes", b |-> b]

\* An exception raised by a pure helper is a value tagged "raise".
Raise(e) == [t |-> "raise", e |-> e]
IsRaise(v) == v.t = "raise"
List(l) == [t |-> "list", l |-> l]

\* the sentinel is a Python str
NOT_FOUND == Str("__not_found__")

\* str.encode("utf-8") of the strings the program hands to Redis and to the
\* hash of create_calander
Utf8(s) ==
    CASE s = "__not_found__" ->
           <<95, 95, 110, 111, 116, 95, 102, 111, 117, 110, 100, 95, 95>>
      [] s = "Cleanprofs" ->
           <<67, 108, 101, 97, 110, 112, 114, 111, 102, 115>>
      [] s = "Afval" ->
           <<65, 102, 118, 97, 108>>
      [] s = "non_recyclable" ->
           <<110, 111, 110, 95, 114, 101, 99, 121, 99, 108, 97, 98, 108, 101>>
      [] s = "organic" ->
           <<111, 114, 103, 97, 110, 105, 99>>
      [] s = "paper" ->
           <<112, 97, 112, 101, 114>>
      [] s = "plastic" ->
           <<112, 108, 97, 115, 116, 105, 99>>
      [] s = "tree" ->
           <<116, 114, 101, 101>>

\* Python's ==: a bytes object never equals a str object.
PyEq(a, b) ==
    /\ a.t = b.t
    /\ a = b

(***************************************************************************)
(* list.index and sorted.                                                  *)
(***************************************************************************)
\* list.index(x): the least position holding x, ValueError when there is none
Index(seq, x) ==
    IF \E i \in 1..Len(seq) : seq[i] = x
    THEN CHOOSE i \in 1..Len(seq) : seq[i] = x /\ \A j \in 1..(i - 1) : seq[j] # x
    ELSE 0

\* tuple comparison of dates <<year, month, day>>
DateLess(a, b) ==
    \/ a[1] < b[1]
    \/ a[1] = b[1] /\ a[2] < b[2]
    \/ a[1] = b[1] /\ a[2] = b[2] /\ a[3] < b[3]

\* ItemLess looking at the date only, as sorted(items, key=...) would
ItemLess_DateOnly(x, y) == DateLess(x[1], y[1])

\* tuple comparison of (date, waste_type)
ItemLess(x, y) ==
    \/ DateLess(x[1], y[1])
    \/ x[1] = y[1] /\ WasteTypeRank(x[2]) < WasteTypeRank(y[2])

RECURSIVE Insert(_, _)
Insert(x, sorted) ==
    IF sorted = <<>> THEN <<x>>
    ELSE IF ItemLess(x, Head(sorted)) THEN <<x>> \o sorted
    ELSE <<Head(sorted)>> \o Insert(x, Tail(sorted))

\* sorted(items): stable, ascending
RECURSIVE Sorted(_)
Sorted(items) ==
    IF items = <<>> THEN <<>>
    ELSE Insert(items[Len(items)], Sorted(SubSeq(items, 1, Len(items) - 1)))

(***************************************************************************)
(* pickle.dumps / pickle.loads of a list of (date, WasteType) tuples, as a *)
(* byte string: PROTO 4, EMPTY_LIST, then per item the date's four state   *)
(* bytes (year high, year low, month, day), the waste type, TUPLE2 and     *)
(* APPEND, then STOP.                                                      *)
(***************************************************************************)
OP_PROTO == 128
OP_EMPTY_LIST == 93
OP_SHORT_BINBYTES == 67
OP_BININT1 == 75
OP_TUPLE2 == 134
OP_APPEND == 97
OP_STOP == 46
PICKLE_PROTOCOL == 4
DATE_STATE_LEN == 4
ITEM_LEN == 10

WasteTypeOfRank(r) == CHOOSE w \in WasteType : WasteTypeRank(w) = r

DumpItem(item) ==
    <<OP_SHORT_BINBYTES, DATE_STATE_LEN,
      item[1][1] \div 256, item[1][1] % 256, item[1][2], item[1][3],
      OP_BININT1, WasteTypeRank(item[2]), OP_TUPLE2, OP_APPEND>>

RECURSIVE DumpItems(_)
DumpItems(items) ==
    IF items = <<>> THEN <<>>
    ELSE DumpItem(Head(items)) \o DumpItems(Tail(items))

\* pickle.dumps(items)
PickleDumps(items) ==
    Bytes(<<OP_PROTO, PICKLE_PROTOCOL, OP_EMPTY_LIST>> \o DumpItems(items) \o <<OP_STOP>>)

\* the opcodes from position i on, after PROTO and EMPTY_LIST were read
RECURSIVE LoadItems(_, _, _)
LoadItems(b, i, acc) ==
    IF i > Len(b) THEN Raise("EOFError")
    ELSE IF b[i] = OP_STOP THEN List(acc)
    ELSE IF /\ b[i] = OP_SHORT_BINBYTES
            /\ i + ITEM_LEN - 1 <= Len(b)
            /\ b[i + 1] = DATE_STATE_LEN
            /\ b[i + 6] = OP_BININT1
            /\ b[i + 7] \in 1..Cardinality(WasteType)
            /\ b[i + 8] = OP_TUPLE2
            /\ b[i + 9] = OP_APPEND
    THEN LoadItems(b, i + ITEM_LEN,
                   Append(acc, <<<<b[i + 2] * 256 + b[i + 3], b[i + 4], b[i + 5]>>,
                                 WasteTypeOfRank(b[i + 7])>>))
    ELSE Raise("UnpicklingError")

\* pickle.loads(data): a first byte that is no opcode is an invalid load key
PickleLoads(data) ==
    IF data.t # "bytes" THEN Raise("TypeError")
    ELSE IF Len(data.b) = 0 THEN Raise("EOFError")
    ELSE IF data.b[1] # OP_PROTO THEN Raise("UnpicklingError")
    ELSE IF Len(data.b) < 3 THEN Raise("EOFError")
    ELSE IF data.b[2] # PICKLE_PROTOCOL \/ data.b[3] # OP_EMPTY_LIST
    THEN Raise("UnpicklingError")
    ELSE LoadItems(data.b, 4, <<>>)

(***************************************************************************)
(* Text helpers of the adapters.                                           *)
(***************************************************************************)
\* str.lower() on the words that occur in the documents of the model
Lower(s) ==
    CASE s = "Maart" -> "maart"
      [] s = "JANUARI" -> "januari"
      [] s = "GFT" -> "gft"
      [] s = "Mar" -> "mar"
      [] OTHER -> s

\* [a-z]{3}: the words of the model made of exactly three lower-case letters
ThreeLowerLetters ==
    {MONTHS_ABBREVIATED[i] : i \in 1..Len(MONTHS_ABBREVIATED)}
        \cup {"gft", "rst", "mrt", "mei", "okt"}

\* int(digits)
RECURSIVE IntOf(_)
IntOf(digits) ==
    IF digits = <<>> THEN 0
    ELSE 10 * IntOf(SubSeq(digits, 1, Len(digits) - 1)) + digits[Len(digits)]

IsLeap(year) == (year % 4 = 0 /\ year % 100 # 0) \/ year % 400 = 0

DaysInMonth(year, month) ==
    IF month = 2 THEN (IF IsLeap(year) THEN 29 ELSE 28)
    ELSE IF month \in {4, 6, 9, 11} THEN 30
    ELSE 31

Date(d) == [t |-> "date", d |-> d]

\* datetime.date(year, month, day) and date.replace(month=, day=): ValueError
\* when the day does not exist
MakeDate(year, month, day) ==
    IF month \in 1..12 /\ day >= 1 /\ day <= DaysInMonth(year, month)
    THEN Date(<<year, month, day>>)
    ELSE Raise("ValueError")

(***************************************************************************)
(* Provider adapter "Afvalstoffen".  A line of the document is a record of *)
(* the segments the pattern                                                *)
(*   ^\s*<p class="([^"]+)">[^\s]+\s+(\d+) ([^<]+)                         *)
(* looks at: whether it opens with <p class=", the class text, the word    *)
(* after the tag, the amount of white space after it, the digits, the      *)
(* character after the digits and the text up to the next <.               *)
(***************************************************************************)
Line(open, type_, word, gap, day, sep, month) ==
    [open |-> open, type_ |-> type_, word |-> word, gap |-> gap,
     day |-> day, sep |-> sep, month |-> month]

\* re.match(pattern, line) is not None
AfvalstoffenMatch(line) ==
    /\ line.open
    /\ line.type_ # ""
    /\ line.word # ""
    /\ line.gap >= 1
    /\ line.day # <<>>
    /\ line.sep = " "
    /\ line.month # ""

\* the body of the for loop for one matching line: the item, or the exception
AfvalstoffenLineItem(line, year) ==
    LET month == Index(MONTHS, Lower(line.month))
    IN  IF month = 0 THEN Raise("ValueError")
        ELSE LET pickup_date == MakeDate(year, month, IntOf(line.day))
             IN  IF IsRaise(pickup_date) THEN pickup_date
                 ELSE IF line.type_ \notin DOMAIN AFVALSTOFFEN_WASTE_TYPES
                 THEN Raise("KeyError")
                 ELSE List(<<pickup_date.d, AFVALSTOFFEN_WASTE_TYPES[line.type_]>>)

\* the for loop over the lines from position i on, dates collected so far
RECURSIVE AfvalstoffenLoop(_, _, _, _)
AfvalstoffenLoop(lines, i, dates, year) ==
    IF i > Len(lines) THEN List(Sorted(dates))
    ELSE IF ~AfvalstoffenMatch(lines[i])
    THEN AfvalstoffenLoop(lines, i + 1, dates, year)
    ELSE LET r == AfvalstoffenLineItem(lines[i], year)
         IN  IF IsRaise(r) THEN r
             ELSE AfvalstoffenLoop(lines, i + 1, Append(dates, r.l), year)

HTTP_OK == 200

\* afvalstoffen_retrieve_calendar: the two requests of the handshake.  A
\* response is [exc, status1, status2, body].
afvalstoffen_retrieve_calendar(response) ==
    IF response.exc THEN Raise("ConnectError")
    ELSE IF response.status1 # HTTP_OK THEN Raise("NotFound")
    ELSE IF response.status2 # HTTP_OK THEN Raise("NotFound")
    ELSE List(response.body)

\* afvalstoffen_get_dates
afvalstoffen_get_dates(response, year) ==
    LET body == afvalstoffen_retrieve_calendar(response)
    IN  IF IsRaise(body) THEN body
        ELSE AfvalstoffenLoop(body.l, 1, <<>>, year)

(***************************************************************************)
(* Provider adapter "Cleanprofs".  An element is the sequence of the texts *)
(* of its tb-lead spans; a text is [pad, num, word]: surrounding white     *)
(* space, leading digits (<<>> when none) followed by one space, a word.   *)
(***************************************************************************)
Text(pad, num, word) == [pad |-> pad, num |-> num, word |-> word]

\* e.text.strip().lower()
StripLower(text) == Text(0, text.num, Lower(text.word))

\* text in CLEANPROFS_WASTE_TYPES
IsCleanprofsType(text) ==
    text.pad = 0 /\ text.num = <<>> /\ text.word \in DOMAIN CLEANPROFS_WASTE_TYPES

\* re.match(r"^(\d+) ([a-z]{3})$", text)
CleanprofsDateMatch(text) ==
    text.pad = 0 /\ text.num # <<>> /\ text.word \in ThreeLowerLetters

\* the pair (None, None) that cleanprofs_extract_item returns for no item
NonePair == [t |-> "none_pair"]

\* the second loop of cleanprofs_extract_item from position i on
RECURSIVE CleanprofsDateLoop(_, _, _, _)
CleanprofsDateLoop(texts, i, waste_type, year) ==
    IF i > Len(texts) THEN NonePair
    ELSE IF ~CleanprofsDateMatch(texts[i])
    THEN CleanprofsDateLoop(texts, i + 1, waste_type, year)
    ELSE LET month == Index(MONTHS_ABBREVIATED, texts[i].word)
         IN  IF month = 0 THEN Raise("ValueError")
             ELSE LET date == MakeDate(year, month, IntOf(texts[i].num))
                  IN  IF IsRaise(date) THEN date
                      ELSE List(<<date.d, waste_type>>)

\* cleanprofs_extract_item taking the last text of the category table
cleanprofs_extract_item_LastType(element, year) ==
    LET texts == [i \in 1..Len(element) |-> StripLower(element[i])]
        types == SelectSeq(texts, IsCleanprofsType)
    IN  IF types = <<>> THEN NonePair
        ELSE CleanprofsDateLoop(texts, 1,
                                CLEANPROFS_WASTE_TYPES[types[Len(types)].word], year)

\* cleanprofs_extract_item(element): (date, waste_type), (None, None), or the
\* exception
cleanprofs_extract_item(element, year) ==
    LET texts == [i \in 1..Len(element) |-> StripLower(element[i])]
        types == SelectSeq(texts, IsCleanprofsType)
    IN  IF types = <<>> THEN NonePair
        ELSE CleanprofsDateLoop(texts, 1, CLEANPROFS_WASTE_TYPES[types[1].word], year)

\* the for loop of cleanprofs_download_items from element i on
RECURSIVE CleanprofsLoop(_, _, _, _)
CleanprofsLoop(elements, i, items, year) ==
    IF i > Len(elements) THEN List(Sorted(items))
    ELSE LET r == cleanprofs_extract_item(elements[i], year)
         IN  IF IsRaise(r) THEN r
             ELSE IF r.t = NonePair.t
             THEN CleanprofsLoop(elements, i + 1, items, year)
             ELSE CleanprofsLoop(elements, i + 1, Append(items, r.l), year)

\* cleanprofs_download_items.  A response is [exc, status, elements].
cleanprofs_download_items(response, year) ==
    IF response.exc THEN Raise("ConnectError")
    ELSE IF response.status # HTTP_OK THEN Raise("NotFound")
    ELSE CleanprofsLoop(response.elements, 1, <<>>, year)

(***************************************************************************)
(* create_calander and the endpoint cleanprofs_ics.  A datetime.time is    *)
(* <<hour, minute>>; a timedelta is a number of minutes; an aware datetime *)
(* of the one zone AMSTERDAM is its wall clock in minutes, which is what   *)
(* datetime + timedelta works on.                                          *)
(***************************************************************************)
WASTE_TYPE_LABELS ==
    [w \in {"non_recyclable", "organic", "paper", "tree"} |->
        CASE w = "non_recyclable" -> "Non Recyclable"
          [] w = "organic" -> "Organic"
          [] w = "paper" -> "Paper"
          [] w = "tree" -> "Tree"]

MINUTES_PER_HOUR == 60
HOURS_PER_DAY == 24

\* datetime.time(hour, minute)
Time(hour, minute) == <<hour, minute>>

\* datetime.timedelta(days, hours=hours): the first positional argument is
\* days
timedelta(days, hours) == (days * HOURS_PER_DAY + hours) * MINUTES_PER_HOUR

\* date.toordinal()
DaysBeforeYear(year) ==
    (year - 1) * 365 + (year - 1) \div 4 - (year - 1) \div 100 + (year - 1) \div 400

RECURSIVE DaysBeforeMonth(_, _)
DaysBeforeMonth(year, month) ==
    IF month = 1 THEN 0
    ELSE DaysBeforeMonth(year, month - 1) + DaysInMonth(year, month - 1)

ToOrdinal(date) == DaysBeforeYear(date[1]) + DaysBeforeMonth(date[1], date[2]) + date[3]

\* datetime.datetime.combine(timestamp, time).replace(tzinfo=AMSTERDAM)
Combine(timestamp, time) ==
    (ToOrdinal(timestamp) * HOURS_PER_DAY + time[1]) * MINUTES_PER_HOUR + time[2]

\* the ASCII digits of n in `width` places, zero padded
ASCII_ZERO == 48
ASCII_HYPHEN == 45

RECURSIVE Digits(_, _)
Digits(n, width) ==
    IF width = 0 THEN <<>>
    ELSE Append(Digits(n \div 10, width - 1), ASCII_ZERO + (n % 10))

\* str(timestamp).encode("utf-8"): YYYY-MM-DD
DateIsoBytes(timestamp) ==
    Digits(timestamp[1], 4) \o <<ASCII_HYPHEN>> \o Digits(timestamp[2], 2)
        \o <<ASCII_HYPHEN>> \o Digits(timestamp[3], 2)

\* UidInput without the waste type
UidInput_NoType(item_prefix, timestamp, waste_type) ==
    Utf8(item_prefix) \o DateIsoBytes(timestamp)

\* the bytes the three uid.update calls feed to the hash
UidInput(item_prefix, timestamp, waste_type) ==
    Utf8(item_prefix) \o DateIsoBytes(timestamp) \o Utf8(waste_type)

\* ItemAlarms with the offsets taken for the triggers
ItemAlarms_Relative(item_begin, alarms) == alarms

\* [ics.DisplayAlarm(trigger=item_begin + offset) for offset in alarms]
ItemAlarms(item_begin, alarms) ==
    [i \in 1..Len(alarms) |-> item_begin + alarms[i]]

Calendar(events) == [t |-> "calendar", events |-> events]

\* the for loop of create_calander from item i on.  The name is built before
\* ics.Event is called, so a missing label raises KeyError first; ics.Event
\* raises ValueError for a begin after the end; calendar.events is a set.
RECURSIVE CalendarLoop(_, _, _, _, _, _, _)
CalendarLoop(items, i, events, item_prefix, begin, end, alarms) ==
    IF i > Len(items) THEN Calendar(events)
    ELSE LET timestamp == items[i][1]
             waste_type == items[i][2]
             item_begin == Combine(timestamp, begin)
             item_end == Combine(timestamp, end)
         IN  IF waste_type \notin DOMAIN WASTE_TYPE_LABELS THEN Raise("KeyError")
             ELSE IF item_begin > item_end THEN Raise("ValueError")
             ELSE CalendarLoop(items, i + 1,
                      events \cup
                        {[uid |-> UidInput(item_prefix, timestamp, waste_type),
                          name |-> item_prefix \o ": " \o WASTE_TYPE_LABELS[waste_type],
                          begin |-> item_begin,
                          end |-> item_end,
                          alarms |-> ItemAlarms(item_begin, alarms)]},
                      item_prefix, begin, end, alarms)

\* create_calander(items, item_prefix=, begin=, end=, alarms=); alarms is
\* None or a List
create_calander(items, item_prefix, begin, end, alarms) ==
    CalendarLoop(items, 1, {}, item_prefix, begin, end,
                 IF alarms = None \/ alarms.l = <<>> THEN <<>> ELSE alarms.l)

\* the defaults of the query parameters of cleanprofs_ics
ICS_DEFAULT_BEGIN == Time(7, 0)
ICS_DEFAULT_END == Time(19, 0)
ICS_DEFAULT_ALARMS == <<timedelta(-12, 0), timedelta(0, 0)>>

\* alarms[:2]
FirstTwo(alarms) == SubSeq(alarms, 1, IF Len(alarms) < 2 THEN Len(alarms) ELSE 2)

\* a query parameter the request gives
Given(v) == [t |-> "given", v |-> v]

\* cleanprofs_ics once fetch_data_for returned items.  A query parameter the
\* request leaves out is None; begin and end are None or Given, alarms is
\* None or a List.
cleanprofs_ics(provider, items, begin, end, alarms) ==
    create_calander(items,
                    IF provider = "cleanprofs" THEN "Cleanprofs" ELSE "Afval",
                    IF begin = None THEN ICS_DEFAULT_BEGIN ELSE begin.v,
                    IF end = None THEN ICS_DEFAULT_END ELSE end.v,
                    List(FirstTwo(IF alarms = None THEN ICS_DEFAULT_ALARMS ELSE alarms.l)))

(***************************************************************************)
(* The Redis client `cache`: keys present in the store map to [val, ttl].  *)
(* The client is built without decode_responses, so a str handed to SET is *)
(* stored as its UTF-8 bytes and GET returns bytes.                        *)
(***************************************************************************)
NO_TTL == -1
Missing == [t |-> "missing"]

\* what the client sends for a value
RedisEncode(value) == IF value.t = "str" THEN Bytes(Utf8(value.s)) ELSE value

\* cache.get(key)
RedisGet(st, k) == IF k \in DOMAIN st THEN st[k].val ELSE None

\* cache.set(key, value): the key keeps no expiration from before
RedisSet(st, k, value) ==
    [x \in DOMAIN st \cup {k} |->
        IF x = k THEN [val |-> RedisEncode(value), ttl |-> NO_TTL] ELSE st[x]]

\* cache.expire(key, seconds): nothing happens to a key that is not there
RedisExpire(st, k, seconds) ==
    [x \in DOMAIN st |-> IF x = k THEN [st[x] EXCEPT !.ttl = seconds] ELSE st[x]]

\* the store after d seconds
RedisAge(st, d) ==
    LET alive == {x \in DOMAIN st : st[x].ttl = NO_TTL \/ st[x].ttl > d}
    IN  [x \in alive |->
            IF st[x].ttl = NO_TTL THEN st[x] ELSE [st[x] EXCEPT !.ttl = @ - d]]

EntryOf(st, k) == IF k \in DOMAIN st THEN st[k] ELSE Missing

(***************************************************************************)
(* fetch_cached_data_for, after cache.get returned `result`                *)
(***************************************************************************)
\* fetch_cached_data_for with a truth test in place of `is None`
fetch_cached_data_for_Falsy(result) ==
    IF PyEq(result, NOT_FOUND) THEN NotFound
    ELSE IF result = None THEN None
    ELSE LET loaded == PickleLoads(result)
         IN  IF loaded.t = "list" /\ loaded.l = <<>> THEN None ELSE loaded

fetch_cached_data_for(result) ==
    IF PyEq(result, NOT_FOUND) THEN NotFound
    ELSE IF result = None THEN None
    ELSE PickleLoads(result)

(***************************************************************************)
(* Requests.                                                               *)
(***************************************************************************)
Addresses ==
    {[postal_code |-> <<"5", "2", "1", "1">>, number |-> <<"7">>, addition |-> <<>>]}

\* f"{provider.value}-{postal_code}-{number}-{addition}"
KeyOf(provider, postal_code, number, addition) ==
    <<provider>> \o <<"-">> \o postal_code \o <<"-">> \o number \o <<"-">> \o addition

\* HTTP answers of the endpoint: a list, HTTPException(404), HTTPException(500)
\* or an exception nobody caught (the server answers 500)
Ok(l) == [status |-> "200", items |-> l]
Http404 == [status |-> "404", items |-> <<>>]
Http500 == [status |-> "500", items |-> <<>>]

(***************************************************************************)
(* Documents the providers answer with in the orchestrator's runs.         *)
(***************************************************************************)
LineRest == Line(TRUE, "restafval", "Maandag", 1, <<5>>, " ", "januari")
LineGft == Line(TRUE, "gft", "Dinsdag", 1, <<0, 3>>, " ", "Maart")
LinePlastic == Line(TRUE, "plastic", "Woensdag", 1, <<7>>, " ", "mei")
LineHeading == Line(FALSE, "", "", 0, <<>>, "", "")

AfvalstoffenResponses ==
    {[exc |-> TRUE, status1 |-> 0, status2 |-> 0, body |-> <<>>],
     [exc |-> FALSE, status1 |-> 200, status2 |-> 404, body |-> <<>>],
     [exc |-> FALSE, status1 |-> 200, status2 |-> 200, body |-> <<LineHeading>>],
     [exc |-> FALSE, status1 |-> 200, status2 |-> 200, body |-> <<LineGft, LineRest>>],
     [exc |-> FALSE, status1 |-> 200, status2 |-> 200, body |-> <<LineRest, LinePlastic>>]}

ElemGft == <<Text(1, <<>>, "GFT"), Text(0, <<0, 3>>, "mar")>>
ElemOther == <<Text(0, <<>>, "pmd"), Text(0, <<1, 0>>, "mar")>>

CleanprofsResponses ==
    {[exc |-> TRUE, status |-> 0, elements |-> <<>>],
     [exc |-> FALSE, status |-> 500, elements |-> <<>>],
     [exc |-> FALSE, status |-> 200, elements |-> <<ElemOther>>],
     [exc |-> FALSE, status |-> 200, elements |-> <<ElemOther, ElemGft>>]}

ResponsesOf(provider) ==
    IF provider = "cleanprofs" THEN CleanprofsResponses ELSE AfvalstoffenResponses

\* datetime.date.today() at the time the adapter parses
Todays == {<<2024, 2, 29>>}

(***************************************************************************)
(* State.                                                                  *)
(***************************************************************************)
VARIABLES
    store,      \* the Redis store
    pc,         \* where each request is in fetch_data_for
    args,       \* its arguments (provider, postal_code, number, addition)
    key,        \* its local variable key
    items,      \* its local variable items
    hist,       \* what the request did so far
    log,        \* the finished requests, in the order they finished
    started,    \* number of requests started
    call_cached_cache,  \* call_cached._cache: args -> (added, result)
    now,        \* datetime.datetime.now(), in hours
    mcall,      \* the call_cached call in progress
    memlog,     \* the finished call_cached calls
    pin,        \* what an adapter is run on: provider, response, today
    pout        \* what the adapter returned or raised

durable == <<store, pc, args, key, items, hist, log, started>>
inprocess == <<call_cached_cache, now, mcall, memlog>>
parsing == <<pin, pout>>
vars == <<store, pc, args, key, items, hist, log, started,
          call_cached_cache, now, mcall, memlog, pin, pout>>

NoArgs == [provider |-> "", postal_code |-> <<>>, number |-> <<>>, addition |-> <<>>]

\* rid: number of the request; peers: the requests in flight when it started;
\* got: what cache.get returned; seen: the entry cache.get looked at;
\* outcome: how the adapter ended ("none" when it was not invoked);
\* fetched: the list the adapter returned; cmds: the writes sent to Redis
NoHist == [rid |-> 0, peers |-> {}, got |-> None, seen |-> Missing,
           outcome |-> "none", fetched |-> <<>>, cmds |-> <<>>]

NoInput == [provider |-> "", response |-> <<>>, today |-> <<>>]
NotRun == [t |-> "not_run"]

\* no call_cached call is in progress
NoCall == [pc |-> "idle", provider |-> "", args |-> <<>>, src |-> 0, t0 |-> 0,
           found |-> Missing]

Init ==
    /\ store = [x \in {} |-> Missing]
    /\ pc = [p \in Procs |-> "idle"]
    /\ args = [p \in Procs |-> NoArgs]
    /\ key = [p \in Procs |-> <<>>]
    /\ items = [p \in Procs |-> None]
    /\ hist = [p \in Procs |-> NoHist]
    /\ log = <<>>
    /\ started = 0
    /\ call_cached_cache = [x \in {} |-> Missing]
    /\ now = 0
    /\ mcall = NoCall
    /\ memlog = <<>>
    /\ pin = NoInput
    /\ pout = NotRun

\* the request of p ends with `response`; st is the store it leaves
Finish(p, h, response, st) ==
    /\ log' = Append(log, [rid |-> h.rid, peers |-> h.peers, key |-> key[p],
                           args |-> args[p],
                           got |-> h.got, seen |-> h.seen,
                           outcome |-> h.outcome, fetched |-> h.fetched,
                           cmds |-> h.cmds, response |-> response,
                           left |-> EntryOf(st, key[p])])
    /\ pc' = [pc EXCEPT ![p] = "idle"]
    /\ hist' = [hist EXCEPT ![p] = NoHist]
    /\ items' = [items EXCEPT ![p] = None]

\* a request arrives: fetch_data_for builds the key and asks the cache
Start(p) ==
    /\ pc[p] = "idle"
    /\ started < MaxRequests
    /\ \E provider \in Provider, a \in Addresses :
        /\ args' = [args EXCEPT ![p] = [provider |-> provider,
                                        postal_code |-> a.postal_code,
                                        number |-> a.number,
                                        addition |-> a.addition]]
        /\ key' = [key EXCEPT ![p] =
                      KeyOf(provider, a.postal_code, a.number, a.addition)]
    /\ started' = started + 1
    /\ hist' = [hist EXCEPT ![p] =
                  [NoHist EXCEPT !.rid = started + 1,
                                 !.peers = {hist[q].rid : q \in {q \in Procs : pc[q] # "idle"}}]]
    /\ pc' = [pc EXCEPT ![p] = "cache_get"]
    /\ UNCHANGED <<store, items, log, inprocess, parsing>>

\* CacheGet with a hit that renews the expiration of the entry
CacheGet_Refreshing(p) ==
    /\ pc[p] = "cache_get"
    /\ LET result == RedisGet(store, key[p])
           cached == fetch_cached_data_for(result)
           h == [hist[p] EXCEPT !.got = result, !.seen = EntryOf(store, key[p])]
           renewed == RedisExpire(store, key[p], REDIS_POSITIVE_CACHE_EXPIRE)
       IN  \/ /\ IsRaise(cached)
              /\ Finish(p, h, Http500, store)
              /\ UNCHANGED store
           \/ /\ cached = NotFound
              /\ Finish(p, h, Http404, store)
              /\ UNCHANGED store
           \/ /\ cached.t = "list"
              /\ Finish(p, h, Ok(cached.l), renewed)
              /\ store' = renewed
           \/ /\ cached = None
              /\ pc' = [pc EXCEPT ![p] = "adapter"]
              /\ hist' = [hist EXCEPT ![p] = h]
              /\ UNCHANGED <<items, log, store>>
    /\ UNCHANGED <<args, key, started, inprocess, parsing>>

\* cache.get answers; fetch_cached_data_for and the dispatch on items
CacheGet(p) ==
    /\ pc[p] = "cache_get"
    /\ LET result == RedisGet(store, key[p])
           cached == fetch_cached_data_for(result)
           h == [hist[p] EXCEPT !.got = result, !.seen = EntryOf(store, key[p])]
       IN  \/ /\ IsRaise(cached)
              /\ Finish(p, h, Http500, store)
           \/ /\ cached = NotFound
              /\ Finish(p, h, Http404, store)
           \/ /\ cached.t = "list"
              /\ Finish(p, h, Ok(cached.l), store)
           \/ /\ cached = None
              /\ pc' = [pc EXCEPT ![p] = "adapter"]
              /\ hist' = [hist EXCEPT ![p] = h]
              /\ UNCHANGED <<items, log>>
    /\ UNCHANGED <<store, args, key, started, inprocess, parsing>>

\* the provider adapter of the request, given the provider's answer
Adapter(provider, response, year) ==
    IF provider = "cleanprofs" THEN cleanprofs_download_items(response, year)
    ELSE afvalstoffen_get_dates(response, year)

\* how the adapter ended: "NotFound", "error" (any other exception) or "ok"
OutcomeOf(r) ==
    IF r = Raise("NotFound") THEN "NotFound"
    ELSE IF IsRaise(r) THEN "error"
    ELSE "ok"

\* AfterAdapter with every exception handled as NotFound is
AfterAdapter_CachesErrors(r) ==
    IF IsRaise(r) THEN "neg_set" ELSE "pos_set"

\* AfterAdapter with an empty result taken for no data
AfterAdapter_EmptyIsAbsent(r) ==
    IF r = Raise("NotFound") THEN "neg_set"
    ELSE IF IsRaise(r) THEN "raise_500"
    ELSE IF r.l = <<>> THEN "neg_set"
    ELSE "pos_set"

\* the try statement of fetch_data_for: where the request goes when the
\* adapter ended with r
AfterAdapter(r) ==
    IF r = Raise("NotFound") THEN "neg_set"
    ELSE IF IsRaise(r) THEN "raise_500"
    ELSE "pos_set"

\* the adapter returns or raises
AdapterReturn(p) ==
    /\ pc[p] = "adapter"
    /\ \E response \in ResponsesOf(args[p].provider), today \in Todays :
        LET r == Adapter(args[p].provider, response, today[1])
            h == [hist[p] EXCEPT !.outcome = OutcomeOf(r),
                                 !.fetched = IF r.t = "list" THEN r.l ELSE <<>>]
        IN  \/ /\ AfterAdapter(r) = "neg_set"
               /\ pc' = [pc EXCEPT ![p] = "neg_set"]
               /\ hist' = [hist EXCEPT ![p] = h]
               /\ UNCHANGED <<items, log>>
            \/ /\ AfterAdapter(r) = "raise_500"
               /\ Finish(p, h, Http500, store)
            \/ /\ AfterAdapter(r) = "pos_set"
               /\ pc' = [pc EXCEPT ![p] = "pos_set"]
               /\ items' = [items EXCEPT ![p] = r]
               /\ hist' = [hist EXCEPT ![p] = h]
               /\ UNCHANGED log
    /\ UNCHANGED <<store, args, key, started, inprocess, parsing>>

\* cache_negative_result: await cache.set(key, NOT_FOUND)
NegSet(p) ==
    /\ pc[p] = "neg_set"
    /\ store' = RedisSet(store, key[p], NOT_FOUND)
    /\ hist' = [hist EXCEPT ![p].cmds = Append(@, [op |-> "set", val |-> NOT_FOUND])]
    /\ pc' = [pc EXCEPT ![p] = "neg_expire"]
    /\ UNCHANGED <<args, key, items, log, started, inprocess, parsing>>

\* cache_negative_result: await cache.expire(key, ...); then HTTPException(404)
NegExpire(p) ==
    /\ pc[p] = "neg_expire"
    /\ store' = RedisExpire(store, key[p], REDIS_NEGATIVE_CACHE_EXPIRE)
    /\ Finish(p, [hist[p] EXCEPT !.cmds =
                     Append(@, [op |-> "expire", val |-> REDIS_NEGATIVE_CACHE_EXPIRE])],
              Http404, store')
    /\ UNCHANGED <<args, key, started, inprocess, parsing>>

\* cache_positive_result: data = pickle.dumps(items); await cache.set(key, data)
PosSet(p) ==
    /\ pc[p] = "pos_set"
    /\ LET data == PickleDumps(items[p].l)
       IN  /\ store' = RedisSet(store, key[p], data)
           /\ hist' = [hist EXCEPT ![p].cmds = Append(@, [op |-> "set", val |-> data])]
    /\ pc' = [pc EXCEPT ![p] = "pos_expire"]
    /\ UNCHANGED <<args, key, items, log, started, inprocess, parsing>>

\* cache_positive_result: await cache.expire(key, ...); then return items
PosExpire(p) ==
    /\ pc[p] = "pos_expire"
    /\ store' = RedisExpire(store, key[p], REDIS_POSITIVE_CACHE_EXPIRE)
    /\ Finish(p, [hist[p] EXCEPT !.cmds =
                     Append(@, [op |-> "expire", val |-> REDIS_POSITIVE_CACHE_EXPIRE])],
              Ok(items[p].l), store')
    /\ UNCHANGED <<args, key, started, inprocess, parsing>>

\* TickStep seconds pass in Redis
Tick ==
    /\ \E x \in DOMAIN store : store[x].ttl # NO_TTL
    /\ store' = RedisAge(store, TickStep)
    /\ UNCHANGED <<pc, args, key, items, hist, log, started, inprocess, parsing>>

Step(p) ==
    \/ CacheGet(p)
    \/ AdapterReturn(p)
    \/ NegSet(p)
    \/ NegExpire(p)
    \/ PosSet(p)
    \/ PosExpire(p)

\* requests run concurrently
Next ==
    \/ \E p \in Procs : Start(p)
    \/ \E p \in Procs : Step(p)
    \/ Tick

Spec == Init /\ [][Next]_vars

\* one request at a time
StartSeq(p) ==
    /\ \A q \in Procs : pc[q] = "idle"
    /\ Start(p)

NextSeq ==
    \/ \E p \in Procs : StartSeq(p)
    \/ \E p \in Procs : Step(p)
    \/ Tick

SpecSeq == Init /\ [][NextSeq]_vars

\* the request with log entry r went to the adapter
Invoked(r) == r.outcome # "none"

(***************************************************************************)
(* call_cached, the in-process cache.  The wrapped function is the adapter *)
(* of the provider and *args are the arguments that adapter takes.         *)
(***************************************************************************)
FRESH_HOURS == 5

\* the *args of the adapter: cleanprofs_download_items(postal_code, number),
\* afvalstoffen_get_dates(postal_code, number, addition)
ArgsOf(provider, a) ==
    IF provider = "cleanprofs" THEN <<a.postal_code, a.number>>
    ELSE <<a.postal_code, a.number, a.addition>>

\* Fresh with >= in place of >
Fresh_Inclusive(entry, t) == entry.added >= t - FRESH_HOURS

\* added > threshold, threshold = now - timedelta(hours=5)
Fresh(entry, t) == entry.added > t - FRESH_HOURS

\* the first try statement: the cached result when there is a fresh entry,
\* None when the function falls through to the call
call_cached_lookup(cache, a, t) ==
    IF a \in DOMAIN cache /\ Fresh(cache[a], t) THEN cache[a].result ELSE None

\* call_cached._cache[args] = (datetime.datetime.now(), result)
call_cached_store(cache, a, t, result) ==
    [x \in DOMAIN cache \cup {a} |->
        IF x = a THEN [added |-> t, result |-> result] ELSE cache[x]]

\* the call in progress ends with `response`, leaving `cache`
MemFinish(c, outcome, fetched, response, cache) ==
    /\ memlog' = Append(memlog, [provider |-> c.provider, args |-> c.args,
                                 src |-> c.src, t0 |-> c.t0, found |-> c.found,
                                 outcome |-> outcome, fetched |-> fetched,
                                 response |-> response, at |-> now,
                                 after |-> EntryOf(cache, c.args)])
    /\ call_cached_cache' = cache
    /\ mcall' = NoCall

\* call_cached is called: the lookup, and the answer when the entry is fresh
MemCallStart(provider, a, src) ==
    /\ mcall.pc = "idle"
    /\ LET c == [pc |-> "fun", provider |-> provider, args |-> ArgsOf(provider, a),
                 src |-> src, t0 |-> now,
                 found |-> EntryOf(call_cached_cache, ArgsOf(provider, a))]
           result == call_cached_lookup(call_cached_cache, c.args, now)
       IN  \/ /\ result = NotFound
              /\ MemFinish(c, "none", <<>>, Http404, call_cached_cache)
           \/ /\ result.t = "list"
              /\ MemFinish(c, "none", <<>>, Ok(result.l), call_cached_cache)
           \/ /\ result = None
              /\ mcall' = c
              /\ UNCHANGED <<call_cached_cache, memlog>>
    /\ UNCHANGED now

\* the adapter answers as it answered the request the call replays, if any
Replays(src, r) ==
    IF src = 0 THEN TRUE
    ELSE IF ~Invoked(log[src]) THEN TRUE
    ELSE /\ OutcomeOf(r) = log[src].outcome
         /\ r.t = "list" => r.l = log[src].fetched

\* await fun(*args) returns or raises: the second try statement
MemCallReturn ==
    /\ mcall.pc = "fun"
    /\ \E response \in ResponsesOf(mcall.provider), today \in Todays :
        LET r == Adapter(mcall.provider, response, today[1])
        IN  /\ Replays(mcall.src, r)
            /\ \/ /\ r = Raise("NotFound")
                  /\ MemFinish(mcall, "NotFound", <<>>, Http404,
                               call_cached_store(call_cached_cache, mcall.args, now, NotFound))
               \/ /\ IsRaise(r) /\ r # Raise("NotFound")
                  /\ MemFinish(mcall, "error", <<>>, Http500, call_cached_cache)
               \/ /\ r.t = "list"
                  /\ MemFinish(mcall, "ok", r.l, Ok(r.l),
                               call_cached_store(call_cached_cache, mcall.args, now, r))
    /\ UNCHANGED now

\* an hour passes
MemTick ==
    /\ now < MaxNow
    /\ now' = now + 1
    /\ UNCHANGED <<call_cached_cache, mcall, memlog>>

\* calls of call_cached, one at a time, as time passes
NextMem ==
    \/ /\ Len(memlog) < MaxMemCalls
       /\ \E provider \in Provider, a \in Addresses : MemCallStart(provider, a, 0)
       /\ UNCHANGED <<durable, parsing>>
    \/ MemCallReturn /\ UNCHANGED <<durable, parsing>>
    \/ MemTick /\ UNCHANGED <<durable, parsing>>

SpecMem == Init /\ [][NextMem]_vars

\* the request that finished as number n of the durable variant is given to
\* call_cached too
MemReplay ==
    /\ Len(memlog) < Len(log)
    /\ LET n == Len(memlog) + 1
       IN  MemCallStart(log[n].args.provider,
                        [postal_code |-> log[n].args.postal_code,
                         number |-> log[n].args.number,
                         addition |-> log[n].args.addition], n)

\* both variants get the same requests, one at a time, and no time passes
NextEquiv ==
    \/ \E p \in Procs : StartSeq(p)
    \/ \E p \in Procs : Step(p)
    \/ MemReplay /\ UNCHANGED <<durable, parsing>>
    \/ MemCallReturn /\ UNCHANGED <<durable, parsing>>

SpecEquiv == Init /\ [][NextEquiv]_vars

TypeOK ==
    /\ started \in 0..MaxRequests
    /\ Len(log) <= started
    /\ \A p \in Procs : pc[p] \in {"idle", "cache_get", "adapter", "neg_set",
                                   "neg_expire", "pos_set", "pos_expire"}

(***************************************************************************)
(* Claims about fetch_data_for and the Redis cache.                        *)
(***************************************************************************)
\* what Redis holds for the negative entry
StoredSentinel == RedisEncode(NOT_FOUND)

Finished == 1..Len(log)

\* C1: when the adapter raised NotFound for a request, a later request for the
\* same key that reads the negative entry the first one stored (so before it
\* expires) fails with 404 like the first one and does not invoke the adapter:
\* one adapter call across both.
C1_NegativeHitAnswers404 ==
    \A i \in Finished, j \in Finished :
        ( /\ i < j
          /\ log[i].key = log[j].key
          /\ log[i].outcome = "NotFound"
          /\ log[j].got = StoredSentinel )
        => /\ log[i].response = Http404
           /\ log[j].response = log[i].response
           /\ ~Invoked(log[j])

\* C2: a request whose adapter raised another exception than NotFound fails
\* with 500 and sent no write to the cache, which is as it was before; the next
\* request for the same key invokes the adapter again.
C2_ErrorNotCached ==
    \A i \in Finished :
        log[i].outcome = "error"
        => /\ log[i].response = Http500
           /\ log[i].cmds = <<>>
           /\ log[i].left = log[i].seen
           /\ \A j \in Finished :
                (j = i + 1 /\ log[j].key = log[i].key) => Invoked(log[j])

C2_Witness ==
    \E i \in Finished :
        /\ log[i].outcome = "error"
        /\ i + 1 \in Finished
        /\ log[i + 1].key = log[i].key
        /\ Invoked(log[i + 1])

\* C3: on a cache miss the answer and the stored entry agree: 404 exactly when
\* the adapter raised NotFound, and then the key holds the sentinel; a list
\* exactly when the adapter returned it, and then the key holds the pickle of
\* that whole list; an empty list is stored and answered as a list.
C3_MissOutcomeAgrees ==
    \A i \in Finished :
        log[i].got = None
        => /\ Invoked(log[i])
           /\ log[i].response = Http404 <=> log[i].outcome = "NotFound"
           /\ log[i].outcome = "NotFound"
                => /\ log[i].left # Missing
                   /\ log[i].left.val = StoredSentinel
                   /\ log[i].cmds =
                        <<[op |-> "set", val |-> NOT_FOUND],
                          [op |-> "expire", val |-> REDIS_NEGATIVE_CACHE_EXPIRE]>>
           /\ log[i].response.status = "200" <=> log[i].outcome = "ok"
           /\ log[i].outcome = "ok"
                => /\ log[i].response = Ok(log[i].fetched)
                   /\ log[i].left # Missing
                   /\ log[i].left.val = PickleDumps(log[i].fetched)
                   /\ log[i].left.val # StoredSentinel
                   /\ PickleLoads(log[i].left.val) = List(log[i].fetched)
                   /\ log[i].cmds =
                        <<[op |-> "set", val |-> PickleDumps(log[i].fetched)],
                          [op |-> "expire", val |-> REDIS_POSITIVE_CACHE_EXPIRE]>>

C3_Witness ==
    /\ \E i \in Finished :
        log[i].got = None /\ log[i].outcome = "ok" /\ log[i].fetched = <<>>
    /\ \E i \in Finished :
        log[i].got = None /\ log[i].outcome = "NotFound"

\* C4: a request that finds an entry for its key (positive or negative, with
\* or without an expiration) answers without invoking an adapter and without a
\* write, and leaves the entry's value and remaining expiration as they were.
C4_HitLeavesCacheAlone ==
    \A i \in Finished :
        log[i].seen # Missing
        => /\ ~Invoked(log[i])
           /\ log[i].cmds = <<>>
           /\ log[i].left = log[i].seen

\* a hit on an entry whose expiration has partly run down
C4_Witness ==
    \E i \in Finished :
        /\ log[i].seen # Missing
        /\ log[i].seen.ttl # NO_TTL
        /\ log[i].seen.ttl < REDIS_POSITIVE_CACHE_EXPIRE
        /\ log[i].seen.ttl # REDIS_NEGATIVE_CACHE_EXPIRE
        /\ log[i].left.ttl = log[i].seen.ttl

\* C5: a list stored by cache_positive_result is read back by
\* fetch_cached_data_for, before it expires, as an equal list (same items in
\* the same order), never as None or NotFound; the empty list too.
C5_PositiveRoundTrip ==
    \A i \in Finished, j \in Finished :
        ( /\ j = i + 1
          /\ log[i].key = log[j].key
          /\ log[i].outcome = "ok"
          /\ log[j].seen # Missing )
        => /\ log[j].got = PickleDumps(log[i].fetched)
           /\ fetch_cached_data_for(log[j].got) = List(log[i].fetched)
           /\ log[j].response = Ok(log[i].fetched)

C5_Witness ==
    \E i \in Finished, j \in Finished :
        /\ j = i + 1
        /\ log[i].key = log[j].key
        /\ log[i].outcome = "ok"
        /\ Len(log[i].fetched) = 2
        /\ log[j].seen # Missing
        /\ log[j].response = Ok(log[i].fetched)

\* the empty list makes the round trip too
C5_WitnessEmpty ==
    \E i \in Finished, j \in Finished :
        /\ j = i + 1
        /\ log[i].key = log[j].key
        /\ log[i].outcome = "ok"
        /\ log[i].fetched = <<>>
        /\ log[j].response = Ok(<<>>)

\* a write to key k is in progress: a request is in cache_negative_result or
\* cache_positive_result for it
Writing(k) ==
    \E p \in Procs :
        key[p] = k /\ pc[p] \in {"neg_set", "neg_expire", "pos_set", "pos_expire"}

\* C6: when no write to a key is in progress, a key holding the sentinel has at
\* most REDIS_NEGATIVE_CACHE_EXPIRE seconds left and a key holding a pickled
\* list at most REDIS_POSITIVE_CACHE_EXPIRE, under every interleaving.
C6_ExpiresByClass ==
    \A k \in DOMAIN store :
        ~Writing(k)
        => /\ store[k].ttl # NO_TTL
           /\ store[k].val = StoredSentinel
                => store[k].ttl <= REDIS_NEGATIVE_CACHE_EXPIRE
           /\ store[k].val # StoredSentinel
                => store[k].ttl <= REDIS_POSITIVE_CACHE_EXPIRE

\* the requests with log entries a and b overlapped in time
Concurrent(a, b) == a.rid \in b.peers \/ b.rid \in a.peers

\* the answer that goes with an adapter outcome
AnswerOf(r) == IF r.outcome = "NotFound" THEN Http404 ELSE Ok(r.fetched)

\* the entry that goes with an adapter outcome
ValueOf(r) == IF r.outcome = "NotFound" THEN StoredSentinel ELSE PickleDumps(r.fetched)
ClassExpire(r) ==
    IF r.outcome = "NotFound" THEN REDIS_NEGATIVE_CACHE_EXPIRE
    ELSE REDIS_POSITIVE_CACHE_EXPIRE

\* C7: two concurrent requests for the same key, the only ones on that key and
\* so started with the key uncached, of which a invoked the adapter and b either
\* did not or got the same outcome: both receive that outcome, and the key the
\* later one leaves holds that outcome with an expiration of its class (or has
\* expired already).
C7_DuplicateFetchHarmless ==
    \A i \in Finished, j \in Finished :
        ( /\ i # j
          /\ log[i].key = log[j].key
          /\ Concurrent(log[i], log[j])
          /\ \A k \in Finished : log[k].key = log[i].key => k \in {i, j}
          /\ \A p \in Procs : pc[p] # "idle" => key[p] # log[i].key
          /\ log[i].outcome \in {"NotFound", "ok"}
          /\ \/ ~Invoked(log[j])
             \/ log[j].outcome = log[i].outcome /\ log[j].fetched = log[i].fetched )
        => /\ log[i].response = AnswerOf(log[i])
           /\ log[j].response = AnswerOf(log[i])
           /\ LET last == log[IF i < j THEN j ELSE i].left
              IN  \/ last = Missing
                  \/ /\ last.val = ValueOf(log[i])
                     /\ last.ttl # NO_TTL
                     /\ last.ttl <= ClassExpire(log[i])

(***************************************************************************)
(* Claims about call_cached.                                               *)
(***************************************************************************)
MemFinished == 1..Len(memlog)

\* C8: given the same requests on one address and the same adapter outcomes
\* (lists and NotFound only), with no time passing, call_cached and
\* fetch_data_for answer every request alike and invoke the adapter on the same
\* requests.
C8_VariantsInterchangeable ==
    \A n \in MemFinished :
        (\A m \in 1..n : log[m].outcome # "error" /\ memlog[m].outcome # "error")
        => /\ memlog[n].response = log[n].response
           /\ (memlog[n].outcome # "none") <=> Invoked(log[n])

\* the answer call_cached gives from a cached result
MemAnswer(result) == IF result = NotFound THEN Http404 ELSE Ok(result.l)

\* C9: call_cached serves an entry stored less than FRESH_HOURS ago without
\* calling the wrapped function; an entry FRESH_HOURS old or older is a miss:
\* the function is called, the stale entry stays in the map while the call
\* runs, is left as it is when the call raises another exception than
\* NotFound, and is replaced as a whole by the new result otherwise.
C9_FreshnessWindow ==
    /\ \A n \in MemFinished :
        LET m == memlog[n]
        IN  /\ (m.found # Missing /\ m.t0 - m.found.added < FRESH_HOURS)
                => /\ m.outcome = "none"
                   /\ m.response = MemAnswer(m.found.result)
                   /\ m.after = m.found
            /\ (m.found # Missing /\ m.t0 - m.found.added >= FRESH_HOURS)
                => /\ m.outcome # "none"
                   /\ m.outcome = "error" => m.after = m.found /\ m.response = Http500
                   /\ m.outcome = "NotFound"
                        => m.after = [added |-> m.at, result |-> NotFound]
                   /\ m.outcome = "ok"
                        => m.after = [added |-> m.at, result |-> List(m.fetched)]
    /\ mcall.pc = "fun" => EntryOf(call_cached_cache, mcall.args) = mcall.found

\* an entry exactly FRESH_HOURS old was not served, and outlived a refetch
\* that raised
C9_Witness ==
    \E n \in MemFinished :
        /\ memlog[n].found # Missing
        /\ memlog[n].t0 - memlog[n].found.added = FRESH_HOURS
        /\ memlog[n].outcome = "error"
        /\ EntryOf(call_cached_cache, memlog[n].args) = memlog[n].found

(***************************************************************************)
(* The adapters on their own: an adapter is run once on a provider answer  *)
(* drawn from the documents below.                                         *)
(***************************************************************************)
LineTree == Line(TRUE, "kerstbomen", "Maandag", 2, <<5>>, " ", "JANUARI")
LineAbbrev == Line(TRUE, "rst", "Wo", 1, <<1, 4>>, " ", "jan")
LineLeapDay == Line(TRUE, "papier", "Do", 1, <<2, 9>>, " ", "februari")
LineNoGap == Line(TRUE, "gft", "Vr", 0, <<1, 2>>, " ", "juni")

ParseLines ==
    {LineRest, LineGft, LinePlastic, LineHeading, LineTree, LineAbbrev,
     LineLeapDay, LineNoGap}

ElemRst == <<Text(0, <<1, 0>>, "Mar"), Text(2, <<>>, "rst")>>
ElemTwoDates == <<Text(0, <<>>, "gft"), Text(0, <<2, 9>>, "feb"), Text(0, <<1>>, "jan")>>
ElemDutch == <<Text(0, <<>>, "gft"), Text(0, <<0, 3>>, "mrt")>>
ElemNoDate == <<Text(0, <<>>, "rst")>>
ElemTwoTypes == <<Text(0, <<>>, "rst"), Text(0, <<>>, "gft"), Text(0, <<5>>, "may")>>

ElemSameDay == <<Text(0, <<3>>, "mar"), Text(0, <<>>, "rst")>>

ParseElements ==
    {ElemGft, ElemOther, ElemRst, ElemTwoDates, ElemDutch, ElemNoDate, ElemTwoTypes,
     ElemSameDay}

\* the sequences over S of length at most n
RECURSIVE SeqsUpTo(_, _)
SeqsUpTo(S, n) ==
    IF n = 0 THEN {<<>>}
    ELSE LET shorter == SeqsUpTo(S, n - 1)
         IN  shorter \cup {Append(q, x) : q \in shorter, x \in S}

ParseTodays == {<<2023, 12, 30>>, <<2024, 2, 29>>}

ParseInputs ==
    {[provider |-> "afvalstoffen", today |-> d,
      response |-> [exc |-> FALSE, status1 |-> 200, status2 |-> 200, body |-> b]] :
        d \in ParseTodays, b \in SeqsUpTo(ParseLines, MaxLines)}
    \cup
    {[provider |-> "cleanprofs", today |-> d,
      response |-> [exc |-> FALSE, status |-> 200, elements |-> e]] :
        d \in ParseTodays, e \in SeqsUpTo(ParseElements, MaxLines)}

InitParse ==
    /\ store = [x \in {} |-> Missing]
    /\ pc = [p \in Procs |-> "idle"]
    /\ args = [p \in Procs |-> NoArgs]
    /\ key = [p \in Procs |-> <<>>]
    /\ items = [p \in Procs |-> None]
    /\ hist = [p \in Procs |-> NoHist]
    /\ log = <<>>
    /\ started = 0
    /\ call_cached_cache = [x \in {} |-> Missing]
    /\ now = 0
    /\ mcall = NoCall
    /\ memlog = <<>>
    /\ pin \in ParseInputs
    /\ pout = NotRun

\* afvalstoffen_get_dates runs on the answer
RunAfvalstoffen ==
    /\ pout = NotRun
    /\ pin.provider = "afvalstoffen"
    /\ pout' = afvalstoffen_get_dates(pin.response, pin.today[1])
    /\ UNCHANGED <<durable, inprocess, pin>>

\* cleanprofs_download_items runs on the answer
RunCleanprofs ==
    /\ pout = NotRun
    /\ pin.provider = "cleanprofs"
    /\ pout' = cleanprofs_download_items(pin.response, pin.today[1])
    /\ UNCHANGED <<durable, inprocess, pin>>

NextParse ==
    \/ RunAfvalstoffen
    \/ RunCleanprofs

SpecParse == InitParse /\ [][NextParse]_vars

(***************************************************************************)
(* Claims about the adapters.                                              *)
(***************************************************************************)
\* a line the claim counts as recognised: it matches the pattern, its marker
\* is in AFVALSTOFFEN_WASTE_TYPES and its month name in MONTHS
Recognised(line) ==
    /\ AfvalstoffenMatch(line)
    /\ line.type_ \in DOMAIN AFVALSTOFFEN_WASTE_TYPES
    /\ Index(MONTHS, Lower(line.month)) # 0

\* C10: afvalstoffen_get_dates does not fail on any document: lines with an
\* unknown marker, an unknown month name or not matching the pattern are
\* skipped, and the events of the other lines are returned.
C10_DocumentNeverFails ==
    (pin.provider = "afvalstoffen" /\ pout # NotRun)
    => /\ pout.t = "list"
       /\ Len(pout.l) = Len(SelectSeq(pin.response.body, Recognised))

\* C11: on the document made of the line <p class="rst">Wo 14 jan</p>
\* afvalstoffen_get_dates yields exactly one event: non_recyclable on
\* January 14 of the current year.
C11_AbbreviatedLine ==
    (pin.provider = "afvalstoffen" /\ pin.response.body = <<LineAbbrev>>
        /\ pout # NotRun)
    => pout = List(<< <<<<pin.today[1], 1, 14>>, "non_recyclable">> >>)

\* the lowercased, trimmed texts of an element
TextsOf(element) == [i \in 1..Len(element) |-> StripLower(element[i])]

TypeTexts(element) == SelectSeq(TextsOf(element), IsCleanprofsType)

DateTexts(element) == SelectSeq(TextsOf(element), CleanprofsDateMatch)

\* the element has a category text, and its first date text names a month of
\* MONTHS_ABBREVIATED and a day of that month
Resolvable(element, year) ==
    /\ TypeTexts(element) # <<>>
    /\ DateTexts(element) # <<>>
    /\ LET month == Index(MONTHS_ABBREVIATED, DateTexts(element)[1].word)
           day == IntOf(DateTexts(element)[1].num)
       IN  month # 0 /\ day >= 1 /\ day <= DaysInMonth(year, month)

\* the event the claim gives a resolvable element
EventOf(element, year) ==
    << <<year, Index(MONTHS_ABBREVIATED, DateTexts(element)[1].word),
         IntOf(DateTexts(element)[1].num)>>,
       CLEANPROFS_WASTE_TYPES[TypeTexts(element)[1].word] >>

\* how many times x occurs in the sequence
Count(seq, x) == Cardinality({i \in DOMAIN seq : seq[i] = x})

\* the result is a list holding the resolvable elements' events, each as
\* often as elements give it, and nothing else
HoldsEventsOf(result, elements, year) ==
    /\ result.t = "list"
    /\ Len(result.l) = Len(SelectSeq(elements, LAMBDA e : Resolvable(e, year)))
    /\ \A i \in DOMAIN elements :
        Resolvable(elements[i], year)
        => Count(result.l, EventOf(elements[i], year))
           = Cardinality({j \in DOMAIN elements :
                            /\ Resolvable(elements[j], year)
                            /\ EventOf(elements[j], year) = EventOf(elements[i], year)})

\* C12: a Cleanprofs item none of whose texts is a key of
\* CLEANPROFS_WASTE_TYPES is discarded without error; an item with such a text
\* and a date text that MONTHS_ABBREVIATED resolves gives the event of its
\* first category text and its first date text in the current year; the texts
\* ["gft", "03 mar"] give exactly the event (March 3, organic).
C12_ItemExtraction ==
    (pin.provider = "cleanprofs" /\ pout # NotRun)
    => LET elements == pin.response.elements
           year == pin.today[1]
       IN  /\ (\A i \in DOMAIN elements :
                 TypeTexts(elements[i]) = <<>> \/ Resolvable(elements[i], year))
              => HoldsEventsOf(pout, elements, year)
           /\ elements = <<ElemGft>>
              => pout = List(<< <<<<year, 3, 3>>, "organic">> >>)

\* a discarded item, and an item with two category texts, have been through
\* the adapter together
C12_Witness ==
    /\ pin.provider = "cleanprofs"
    /\ pin.response.elements = <<ElemOther, ElemTwoTypes>>
    /\ pout = List(<< <<<<pin.today[1], 5, 5>>, "non_recyclable">> >>)

\* the texts ["gft", "03 mar"] have been through the adapter
C12_WitnessGft ==
    /\ pin.provider = "cleanprofs"
    /\ pin.response.elements = <<ElemGft>>
    /\ pout # NotRun

\* the event of a line that went through the loop body of
\* afvalstoffen_get_dates without an exception
LineEventOf(line, year) ==
    << <<year, Index(MONTHS, Lower(line.month)), IntOf(line.day)>>,
       AFVALSTOFFEN_WASTE_TYPES[line.type_] >>

\* the events extracted from the document of pin, in document order, when the
\* adapter returned a list
Extracted ==
    IF pin.provider = "afvalstoffen"
    THEN LET lines == SelectSeq(pin.response.body, AfvalstoffenMatch)
         IN  [i \in 1..Len(lines) |-> LineEventOf(lines[i], pin.today[1])]
    ELSE LET elements == SelectSeq(pin.response.elements,
                                   LAMBDA e : Resolvable(e, pin.today[1]))
         IN  [i \in 1..Len(elements) |-> EventOf(elements[i], pin.today[1])]

\* x is not after y: earlier date, or the same date and no later waste type
NotAfter(x, y) ==
    \/ DateLess(x[1], y[1])
    \/ x[1] = y[1] /\ WasteTypeRank(x[2]) <= WasteTypeRank(y[2])

\* C13: the list an adapter returns is sorted ascending by date, events of one
\* date by waste_type, and is a permutation of the events extracted from the
\* document.
C13_SortedPermutation ==
    pout.t = "list"
    => /\ \A i, j \in DOMAIN pout.l : i < j => NotAfter(pout.l[i], pout.l[j])
       /\ Len(pout.l) = Len(Extracted)
       /\ \A i \in DOMAIN Extracted :
            Count(pout.l, Extracted[i]) = Count(Extracted, Extracted[i])

\* two events of one date arrived in descending waste_type order and were
\* returned in ascending order
C13_Witness ==
    /\ pin.provider = "afvalstoffen"
    /\ pin.response.body = <<LineTree, LineRest>>
    /\ pout = List(<< <<<<pin.today[1], 1, 5>>, "non_recyclable">>,
                      <<<<pin.today[1], 1, 5>>, "tree">> >>)

\* the same for Cleanprofs, with dates out of order
C13_WitnessCleanprofs ==
    /\ pin.provider = "cleanprofs"
    /\ pin.response.elements = <<ElemRst, ElemGft>>
    /\ pout = List(<< <<<<pin.today[1], 3, 3>>, "organic">>,
                      <<<<pin.today[1], 3, 10>>, "non_recyclable">> >>)

(***************************************************************************)
(* create_calander and cleanprofs_ics as functions of their arguments.     *)
(***************************************************************************)
EventRest == << <<2024, 1, 12>>, "non_recyclable" >>
EventTree == << <<2024, 1, 12>>, "tree" >>
EventGft == << <<2024, 11, 2>>, "organic" >>
EventPlastic == << <<2024, 3, 31>>, "plastic" >>

CalEvents == {EventRest, EventTree, EventGft, EventPlastic}

CalTimes == {Time(7, 0), Time(19, 30)}

\* offsets before, at and after the start; three offsets for alarms[:2]
CalAlarms ==
    {List(<<>>), List(<<timedelta(0, -12), timedelta(0, 0)>>), List(<<timedelta(0, 1)>>),
     List(<<timedelta(0, 0), timedelta(0, 0), timedelta(-1, 0)>>)}

\* the events the adapter of a provider can return
ProviderEvents(provider) ==
    {e \in CalEvents :
        \E k \in DOMAIN (IF provider = "cleanprofs" THEN CLEANPROFS_WASTE_TYPES
                         ELSE AFVALSTOFFEN_WASTE_TYPES) :
            e[2] = (IF provider = "cleanprofs" THEN CLEANPROFS_WASTE_TYPES
                    ELSE AFVALSTOFFEN_WASTE_TYPES)[k]}

CalInputs ==
    {[op |-> "create_calander", items |-> l, item_prefix |-> x, begin |-> b,
      end |-> e, alarms |-> a] :
        l \in SeqsUpTo(CalEvents, MaxEvents), x \in {"Cleanprofs", "Afval"},
        b \in CalTimes, e \in CalTimes, a \in CalAlarms \cup {None}}

\* fetch_data_for returns what an adapter returned: a sorted list
IcsInputs ==
    UNION {
        {[op |-> "cleanprofs_ics", provider |-> p, items |-> Sorted(l), begin |-> b,
          end |-> e, alarms |-> a] :
            l \in SeqsUpTo(ProviderEvents(p), MaxEvents),
            b \in {None, Given(Time(19, 30))}, e \in {None, Given(Time(7, 0))},
            a \in CalAlarms \cup {None}} : p \in Provider}

InitCal ==
    /\ store = [x \in {} |-> Missing]
    /\ pc = [p \in Procs |-> "idle"]
    /\ args = [p \in Procs |-> NoArgs]
    /\ key = [p \in Procs |-> <<>>]
    /\ items = [p \in Procs |-> None]
    /\ hist = [p \in Procs |-> NoHist]
    /\ log = <<>>
    /\ started = 0
    /\ call_cached_cache = [x \in {} |-> Missing]
    /\ now = 0
    /\ mcall = NoCall
    /\ memlog = <<>>
    /\ pin \in CalInputs \cup IcsInputs
    /\ pout = NotRun

\* create_calander runs on the arguments
RunCreateCalander ==
    /\ pout = NotRun
    /\ pin.op = "create_calander"
    /\ pout' = create_calander(pin.items, pin.item_prefix, pin.begin, pin.end, pin.alarms)
    /\ UNCHANGED <<durable, inprocess, pin>>

\* the endpoint builds the calendar of the items fetched
RunIcs ==
    /\ pout = NotRun
    /\ pin.op = "cleanprofs_ics"
    /\ pout' = cleanprofs_ics(pin.provider, pin.items, pin.begin, pin.end, pin.alarms)
    /\ UNCHANGED <<durable, inprocess, pin>>

NextCal ==
    \/ RunCreateCalander
    \/ RunIcs

SpecCal == InitCal /\ [][NextCal]_vars

(***************************************************************************)
(* Claims about the calendar.                                              *)
(***************************************************************************)
\* C14: create_calander completes for every list of events over WasteType,
\* whatever the events are, and gives each event an entry named
\* "{item_prefix}: {label of the waste type}".
C14_NoEventDependentFailure ==
    (pin.op = "create_calander" /\ pout # NotRun
        /\ Combine(<<2024, 1, 1>>, pin.begin) <= Combine(<<2024, 1, 1>>, pin.end))
    => /\ pout.t = "calendar"
       /\ \A i \in DOMAIN pin.items :
            \E entry \in pout.events :
                /\ entry.begin = Combine(pin.items[i][1], pin.begin)
                /\ pin.items[i][2] \in DOMAIN WASTE_TYPE_LABELS
                   => entry.name = pin.item_prefix \o ": "
                                     \o WASTE_TYPE_LABELS[pin.items[i][2]]

\* the offset "12 hours before"
TWELVE_HOURS_BEFORE == timedelta(0, -12)

\* C15: a calendar request without alarms gets the default offsets "12 hours
\* before" and "at start": every entry has exactly two reminders, one 12
\* hours before its start and one at its start; of more than two offsets
\* supplied only the first two are used.
C15_DefaultAlarms ==
    (pin.op = "cleanprofs_ics" /\ pout # NotRun /\ pout.t = "calendar")
    => \A entry \in pout.events :
        /\ pin.alarms = None
           => entry.alarms = <<entry.begin + TWELVE_HOURS_BEFORE, entry.begin>>
        /\ (pin.alarms # None /\ Len(pin.alarms.l) > 2)
           => entry.alarms = <<entry.begin + pin.alarms.l[1],
                               entry.begin + pin.alarms.l[2]>>

\* the offsets create_calander works with: `alarms or []`
OffsetsOf(alarms) == IF alarms = None THEN <<>> ELSE alarms.l

\* C16: create_calander gives the entry of every event the interval
\* [date + begin, date + end] and one reminder per offset, in the order of
\* the offsets, each triggering at the interval's start plus the offset; with
\* the offsets [-12h, 0h] that is two reminders, at start - 12h and at start.
C16_IntervalAndReminders ==
    (pin.op = "create_calander" /\ pout # NotRun /\ pout.t = "calendar")
    => LET offsets == OffsetsOf(pin.alarms)
       IN  /\ \A i \in DOMAIN pin.items :
                \E entry \in pout.events :
                    /\ entry.name = pin.item_prefix \o ": "
                                      \o WASTE_TYPE_LABELS[pin.items[i][2]]
                    /\ entry.begin = Combine(pin.items[i][1], pin.begin)
                    /\ entry.end = Combine(pin.items[i][1], pin.end)
           /\ \A entry \in pout.events :
                /\ Len(entry.alarms) = Len(offsets)
                /\ \A k \in DOMAIN offsets : entry.alarms[k] = entry.begin + offsets[k]
                /\ \E i \in DOMAIN pin.items :
                    entry.begin = Combine(pin.items[i][1], pin.begin)
                /\ pin.alarms = List(<<timedelta(0, -12), timedelta(0, 0)>>)
                   => entry.alarms = <<entry.begin - 12 * MINUTES_PER_HOUR, entry.begin>>

\* two events got their entries, with a reminder after the start
C16_Witness ==
    /\ pin.op = "create_calander"
    /\ pin.items = <<EventGft, EventTree>>
    /\ pin.alarms = List(<<timedelta(0, 1)>>)
    /\ pout.t = "calendar"
    /\ Cardinality(pout.events) = 2

\* the scenario with offsets [-12h, 0h]
C16_WitnessTwoReminders ==
    /\ pin.op = "create_calander"
    /\ pin.items = <<EventRest>>
    /\ pin.alarms = List(<<timedelta(0, -12), timedelta(0, 0)>>)
    /\ pout.t = "calendar"
    /\ \E entry \in pout.events : Len(entry.alarms) = 2

(***************************************************************************)
(* Two runs of create_calander, one after the other.                       *)
(***************************************************************************)
\* begin, end and alarms of a call
UidSettings ==
    {[begin |-> Time(7, 0), end |-> Time(19, 30), alarms |-> None],
     [begin |-> Time(7, 0), end |-> Time(7, 0),
      alarms |-> List(<<timedelta(0, -12), timedelta(0, 0)>>)],
     [begin |-> Time(19, 30), end |-> Time(19, 30), alarms |-> List(<<timedelta(0, 1)>>)]}

UidCalls ==
    {[items |-> l, item_prefix |-> x, begin |-> s.begin, end |-> s.end,
      alarms |-> s.alarms] :
        l \in SeqsUpTo(CalEvents \ {EventPlastic}, MaxEvents),
        x \in {"Cleanprofs", "Afval"}, s \in UidSettings}

InitUid ==
    /\ store = [x \in {} |-> Missing]
    /\ pc = [p \in Procs |-> "idle"]
    /\ args = [p \in Procs |-> NoArgs]
    /\ key = [p \in Procs |-> <<>>]
    /\ items = [p \in Procs |-> None]
    /\ hist = [p \in Procs |-> NoHist]
    /\ log = <<>>
    /\ started = 0
    /\ call_cached_cache = [x \in {} |-> Missing]
    /\ now = 0
    /\ mcall = NoCall
    /\ memlog = <<>>
    /\ pin \in UidCalls \X UidCalls
    /\ pout = <<>>

\* the n-th call of pin runs
RunCall(n) ==
    /\ Len(pout) = n - 1
    /\ pout' = Append(pout, create_calander(pin[n].items, pin[n].item_prefix,
                                            pin[n].begin, pin[n].end, pin[n].alarms))
    /\ UNCHANGED <<durable, inprocess, pin>>

NextUid ==
    \/ RunCall(1)
    \/ RunCall(2)

SpecUid == InitUid /\ [][NextUid]_vars

\* the entries that the n-th run made for the event: those with the event's
\* name and start
EntriesOf(n, event) ==
    {entry \in pout[n].events :
        /\ entry.name = pin[n].item_prefix \o ": " \o WASTE_TYPE_LABELS[event[2]]
        /\ entry.begin = Combine(event[1], pin[n].begin)}

\* C17: the identifier of an entry depends on item_prefix, date and
\* waste_type only: under one prefix the entries of the same event carry the
\* same identifier in both runs, whatever begin, end, the offsets, the other
\* events and the event's position are, and the entries of events that
\* differ in date or waste_type carry different hash inputs.
C17_UidFunctionOfEvent ==
    Len(pout) = 2
    => \A m, n \in 1..2 : \A i \in DOMAIN pin[m].items, j \in DOMAIN pin[n].items :
        /\ EntriesOf(m, pin[m].items[i]) # {}
        /\ pin[m].item_prefix = pin[n].item_prefix
           => \A x \in EntriesOf(m, pin[m].items[i]), y \in EntriesOf(n, pin[n].items[j]) :
                (x.uid = y.uid) <=> (pin[m].items[i] = pin[n].items[j])

\* the same event went through two runs that differ in begin, end, offsets,
\* the other events and the event's position
C17_Witness ==
    /\ Len(pout) = 2
    /\ pin[1].items = <<EventTree>>
    /\ pin[2].items = <<EventRest, EventTree>>
    /\ pin[1].item_prefix = pin[2].item_prefix
    /\ pin[1].begin # pin[2].begin
    /\ pin[1].end # pin[2].end
    /\ pin[1].alarms # pin[2].alarms
    /\ \E x \in pout[1].events, y \in pout[2].events : x.uid = y.uid

(***************************************************************************)
(* Requests that end at the await between cache.set and cache.expire: the  *)
(* task is cancelled there (the client went away) or cache.expire raises   *)
(* (the connection to Redis broke).                                        *)
(***************************************************************************)
\* the request of p ends after its set and before its expire
ExpireFails(p) ==
    /\ pc[p] \in {"neg_expire", "pos_expire"}
    /\ Finish(p, hist[p], Http500, store)
    /\ UNCHANGED <<store, args, key, started, inprocess, parsing>>

NextCancel ==
    \/ Next
    \/ \E p \in Procs : ExpireFails(p)

SpecCancel == Init /\ [][NextCancel]_vars

\* C18: no key written by cache_negative_result or cache_positive_result
\* remains stored without an expiration: once no request is in progress,
\* every key in the store has a time to live, and so expires.
C18_EveryEntryExpires ==
    (\A p \in Procs : pc[p] = "idle")
    => \A k \in DOMAIN store : store[k].ttl # NO_TTL

(***************************************************************************)
(* Requests for addresses given as the endpoints accept them: postal_code, *)
(* number and addition are any strings, "-" included.                      *)
(***************************************************************************)
AddressPlain == [postal_code |-> <<"5", "2", "1", "1">>, number |-> <<"7">>, addition |-> <<>>]
AddressHyphenNumber == [postal_code |-> <<"5", "2">>, number |-> <<"1", "-", "7">>, addition |-> <<>>]
AddressHyphenPostal == [postal_code |-> <<"5", "2", "-", "1">>, number |-> <<"7">>, addition |-> <<>>]
AddressAddition == [postal_code |-> <<"5", "2">>, number |-> <<"1">>, addition |-> <<"7">>]

KeyAddresses == {AddressPlain, AddressHyphenNumber, AddressHyphenPostal, AddressAddition}

\* a request for one of KeyAddresses arrives while no other is in progress
StartAny(p) ==
    /\ \A q \in Procs : pc[q] = "idle"
    /\ started < MaxRequests
    /\ \E provider \in Provider, a \in KeyAddresses :
        /\ args' = [args EXCEPT ![p] = [provider |-> provider,
                                        postal_code |-> a.postal_code,
                                        number |-> a.number,
                                        addition |-> a.addition]]
        /\ key' = [key EXCEPT ![p] =
                      KeyOf(provider, a.postal_code, a.number, a.addition)]
    /\ started' = started + 1
    /\ hist' = [hist EXCEPT ![p] = [NoHist EXCEPT !.rid = started + 1]]
    /\ pc' = [pc EXCEPT ![p] = "cache_get"]
    /\ UNCHANGED <<store, items, log, inprocess, parsing>>

NextKeys ==
    \/ \E p \in Procs : StartAny(p)
    \/ \E p \in Procs : Step(p)
    \/ Tick

SpecKeys == Init /\ [][NextKeys]_vars

\* C19: requests that differ in provider, postal_code, number or addition
\* have different cache keys, and a request answered from the cache gets an
\* entry that a request for its own address stored.
C19_KeysInjective ==
    /\ \A i \in Finished, j \in Finished :
        log[i].key = log[j].key => log[i].args = log[j].args
    /\ \A j \in Finished :
        log[j].got # None
        => \E i \in 1..(j - 1) :
            /\ log[i].cmds # <<>>
            /\ log[i].key = log[j].key
            /\ log[i].args = log[j].args
            /\ \A n \in (i + 1)..(j - 1) :
                (log[n].cmds # <<>> /\ log[n].key = log[j].key)
                => log[n].args = log[j].args

=============================================================================
